---------------------------- MODULE Spec2Model ----------------------------
(***************************************************************************)
(* godo: a command line todo client/server.  The module models three      *)
(* invocations of the program: the HTTP server (startServer and its five  *)
(* handlers over the shared counter and the shared todo map), the         *)
(* concurrent fetcher (fetchall/fetchC) and the sequential fetcher        *)
(* (fetch).                                                                *)
(***************************************************************************)
EXTENDS Integers, Sequences, FiniteSets, TLC

(***************************************************************************)
(* Bounds                                                                  *)
(***************************************************************************)
\* number of HTTP requests the server receives (one worker goroutine each)
MaxReqs == 3

Workers == 1..MaxReqs

\* number of URLs on the command line of fetch and fetchall
MaxUrls == 2

\* longest tail of an input string of ensureProtocol
MaxStrLen == 2

(***************************************************************************)
(* Request inputs                                                          *)
(***************************************************************************)
\* request paths: the five registered patterns and an unregistered path
Paths == {"/", "/count", "/request", "/create", "/todos", "/favicon.ico"}

ListNames == {"Inbox", "Work"}

Bodies == {"buy milk", "call"}

\* the body of a POST: a JSON object {list, todo}, or text that is not JSON
BadJSON == [bad |-> TRUE]

Payloads == {BadJSON} \cup [list : ListNames, todo : Bodies]

NoPayload == [none |-> TRUE]

NoTodo == [none |-> TRUE]

NoResp == <<>>

(***************************************************************************)
(* Server state                                                            *)
(***************************************************************************)
VARIABLES
  mu,        \* sync.Mutex: TRUE when locked
  count,     \* the request counter
  lists,     \* map[string][]Todo: a function whose domain is the keys present
  clock,     \* the wall clock read by time.Now()
  crashed,   \* the runtime has thrown a fatal error (concurrent map access)
  nextReq,   \* the next request the server accepts
  pc,        \* per request: position of its handler goroutine
  rq,        \* per request: [path, payload, after]; after is the set of
             \* requests that had finished when this one was accepted
  loc,       \* per request: the handler's locals
  resp       \* per request: the response written

svars == <<mu, count, lists, clock, crashed, nextReq, pc, rq, loc, resp>>

(***************************************************************************)
(* Fetcher state: one invocation of "godo fetchall" or "godo fetch"        *)
(***************************************************************************)
VARIABLES
  args,       \* os.Args[2:], the URLs given on the command line
  mainPc,     \* position of the main goroutine in fetchall / fetch
  idx,        \* the loop index of the main goroutine (args served so far)
  task,       \* fetchall: per URL, the fetchC goroutine [pc, get, read, n]
  out,        \* the lines printed on standard output
  from,       \* fetchall: for each result line, the task it came from
  requested,  \* the URLs handed to http.Get, in order
  open,       \* the response bodies opened and not closed (task/arg index)
  errOut,     \* the lines printed on standard error
  exitCode    \* the exit status of the process, -1 while it runs

fvars ==
  <<args, mainPc, idx, task, out, from, requested, open, errOut, exitCode>>

vars == <<svars, fvars>>

NoReq == [path |-> "", payload |-> NoPayload, after |-> {}]

\* the requests whose handler has returned or panicked
Finished == {v \in Workers : pc[v] \in {"done", "panicked"}}

NoLoc ==
  [n |-> 0, t |-> NoTodo, cur |-> <<>>, keys |-> {}, snap |-> <<>>]

\* registration of the handlers with the default ServeMux: a pattern that
\* does not end in a slash matches that path only, the pattern "/" matches
\* every path no other pattern matches
Route_NoTodos(path) ==
  IF path = "/count" THEN "counter"
  ELSE IF path = "/request" THEN "request"
  ELSE IF path = "/create" THEN "createTodo"
  ELSE "handler"

Route(path) ==
  IF path = "/count" THEN "counter"
  ELSE IF path = "/request" THEN "request"
  ELSE IF path = "/create" THEN "createTodo"
  ELSE IF path = "/todos" THEN "listTodos"
  ELSE "handler"

\* first position of each handler
Entry(h) ==
  CASE h = "handler"    -> "h_lock"
    [] h = "counter"    -> "c_lock"
    [] h = "request"    -> "r_echo"
    [] h = "createTodo" -> "ct_decode"
    [] h = "listTodos"  -> "lt_begin"

\* lists[key] of a Go map: the zero value (nil slice) for an absent key
MapGet(m, k) == IF k \in DOMAIN m THEN m[k] ELSE <<>>

\* m[key] = v: inserts the key when absent
MapPut(m, k, v) == [x \in DOMAIN m \cup {k} |-> IF x = k THEN v ELSE m[x]]

\* json.Marshal of a Todo, by its struct tags
MarshalTodo(t) ==
  [body |-> t.Body, completed |-> t.Completed, created_at |-> t.CreatedAt]

\* json.Marshal of the whole map
MarshalLists(m) ==
  [k \in DOMAIN m |-> [i \in 1..Len(m[k]) |-> MarshalTodo(m[k][i])]]

ServerInit ==
  /\ mu = FALSE
  /\ count = 0
  /\ lists = <<>>
  /\ clock = 1
  /\ crashed = FALSE
  /\ nextReq = 1
  /\ pc = [w \in Workers |-> "idle"]
  /\ rq = [w \in Workers |-> NoReq]
  /\ loc = [w \in Workers |-> NoLoc]
  /\ resp = [w \in Workers |-> NoResp]

\* the process is not a fetcher
FetcherOff ==
  /\ args = <<>>
  /\ mainPc = "server"
  /\ idx = 0
  /\ task = <<>>
  /\ out = <<>>
  /\ from = <<>>
  /\ requested = <<>>
  /\ open = {}
  /\ errOut = <<>>
  /\ exitCode = -1

\* net/http accepts a request and runs the matching handler on its own
\* goroutine
Accept(w, path, payload) ==
  /\ ~crashed
  /\ w = nextReq
  /\ pc[w] = "idle"
  /\ nextReq' = nextReq + 1
  /\ rq' = [rq EXCEPT ![w] =
              [path |-> path, payload |-> payload,
               after |-> IF Route(path) \in {"listTodos", "counter"}
                         THEN Finished ELSE {}]]
  /\ pc' = [pc EXCEPT ![w] = Entry(Route(path))]
  /\ UNCHANGED <<mu, count, lists, clock, crashed, loc, resp, fvars>>

(***************************************************************************)
(* sync.Mutex                                                              *)
(***************************************************************************)
\* mu.Lock() blocks while the mutex is held
CanLock_Always == TRUE

CanLock == mu = FALSE

(***************************************************************************)
(* handler: count++ under mu, then echo the path                           *)
(***************************************************************************)
HandlerLock(w) ==
  /\ ~crashed
  /\ pc[w] = "h_lock"
  /\ CanLock
  /\ mu' = TRUE
  /\ pc' = [pc EXCEPT ![w] = "h_load"]
  /\ UNCHANGED <<count, lists, clock, crashed, nextReq, rq, loc, resp, fvars>>

\* count++ is a load, an add and a store
HandlerLoad(w) ==
  /\ ~crashed
  /\ pc[w] = "h_load"
  /\ loc' = [loc EXCEPT ![w].n = count]
  /\ pc' = [pc EXCEPT ![w] = "h_store"]
  /\ UNCHANGED <<mu, count, lists, clock, crashed, nextReq, rq, resp, fvars>>

HandlerStore(w) ==
  /\ ~crashed
  /\ pc[w] = "h_store"
  /\ count' = loc[w].n + 1
  /\ pc' = [pc EXCEPT ![w] = "h_unlock"]
  /\ UNCHANGED <<mu, lists, clock, crashed, nextReq, rq, loc, resp, fvars>>

\* mu.Unlock(), then Fprintf of the path to the response
HandlerUnlock(w) ==
  /\ ~crashed
  /\ pc[w] = "h_unlock"
  /\ mu' = FALSE
  /\ resp' = [resp EXCEPT ![w] = <<"URL.Path", rq[w].path>>]
  /\ loc' = [loc EXCEPT ![w] = NoLoc]
  /\ pc' = [pc EXCEPT ![w] = "done"]
  /\ UNCHANGED <<count, lists, clock, crashed, nextReq, rq, fvars>>

(***************************************************************************)
(* counter: print count under mu                                           *)
(***************************************************************************)
CounterLock(w) ==
  /\ ~crashed
  /\ pc[w] = "c_lock"
  /\ CanLock
  /\ mu' = TRUE
  /\ pc' = [pc EXCEPT ![w] = "c_print"]
  /\ UNCHANGED <<count, lists, clock, crashed, nextReq, rq, loc, resp, fvars>>

CounterPrint(w) ==
  /\ ~crashed
  /\ pc[w] = "c_print"
  /\ resp' = [resp EXCEPT ![w] = <<"Count", count>>]
  /\ pc' = [pc EXCEPT ![w] = "c_unlock"]
  /\ UNCHANGED <<mu, count, lists, clock, crashed, nextReq, rq, loc, fvars>>

CounterUnlock(w) ==
  /\ ~crashed
  /\ pc[w] = "c_unlock"
  /\ mu' = FALSE
  /\ pc' = [pc EXCEPT ![w] = "done"]
  /\ UNCHANGED <<count, lists, clock, crashed, nextReq, rq, loc, resp, fvars>>

(***************************************************************************)
(* request: echo the request line, headers and form                        *)
(***************************************************************************)
RequestEcho(w) ==
  /\ ~crashed
  /\ pc[w] = "r_echo"
  /\ resp' = [resp EXCEPT ![w] = <<"Echo", rq[w].path>>]
  /\ pc' = [pc EXCEPT ![w] = "done"]
  /\ UNCHANGED <<mu, count, lists, clock, crashed, nextReq, rq, loc, fvars>>

(***************************************************************************)
(* createTodo: decode, build the Todo, append it to lists[key], respond.   *)
(* No lock is taken: the map read, the map write and the read-back are     *)
(* separate unsynchronised accesses.                                       *)
(***************************************************************************)
CreateDecode_Fatal(w) ==
  /\ ~crashed
  /\ pc[w] = "ct_decode"
  /\ IF rq[w].payload = BadJSON
       THEN /\ pc' = [pc EXCEPT ![w] = "panicked"]
            /\ crashed' = TRUE
            /\ UNCHANGED <<clock, loc>>
       ELSE /\ loc' = [loc EXCEPT ![w].t =
                         [Body |-> rq[w].payload.todo,
                          Completed |-> FALSE,
                          CreatedAt |-> clock]]
            /\ clock' = clock + 1
            /\ pc' = [pc EXCEPT ![w] = "ct_read"]
            /\ UNCHANGED crashed
  /\ UNCHANGED <<mu, count, lists, nextReq, rq, resp, fvars>>

\* decoder.Decode(&b); a decode error is log.Panic, which net/http recovers
\* by dropping the connection; otherwise t is built with time.Now()
CreateDecode(w) ==
  /\ ~crashed
  /\ pc[w] = "ct_decode"
  /\ IF rq[w].payload = BadJSON
       THEN /\ pc' = [pc EXCEPT ![w] = "panicked"]
            /\ UNCHANGED <<clock, loc>>
       ELSE /\ loc' = [loc EXCEPT ![w].t =
                         [Body |-> rq[w].payload.todo,
                          Completed |-> FALSE,
                          CreatedAt |-> clock]]
            /\ clock' = clock + 1
            /\ pc' = [pc EXCEPT ![w] = "ct_read"]
  /\ UNCHANGED <<mu, count, lists, crashed, nextReq, rq, resp, fvars>>

\* key := b.List
Key(w) == rq[w].payload.list

\* the operand lists[key] of append
CreateRead(w) ==
  /\ ~crashed
  /\ pc[w] = "ct_read"
  /\ loc' = [loc EXCEPT ![w].cur = MapGet(lists, Key(w))]
  /\ pc' = [pc EXCEPT ![w] = "ct_write"]
  /\ UNCHANGED <<mu, count, lists, clock, crashed, nextReq, rq, resp, fvars>>

CreateWrite_Prepend(w) ==
  /\ ~crashed
  /\ pc[w] = "ct_write"
  /\ lists' = MapPut(lists, Key(w), <<loc[w].t>> \o loc[w].cur)
  /\ loc' = [loc EXCEPT ![w].cur = <<>>]
  /\ pc' = [pc EXCEPT ![w] = "ct_readback"]
  /\ UNCHANGED <<mu, count, clock, crashed, nextReq, rq, resp, fvars>>

CreateWrite_Replace(w) ==
  /\ ~crashed
  /\ pc[w] = "ct_write"
  /\ lists' = MapPut(<<>>, Key(w), Append(loc[w].cur, loc[w].t))
  /\ loc' = [loc EXCEPT ![w].cur = <<>>]
  /\ pc' = [pc EXCEPT ![w] = "ct_readback"]
  /\ UNCHANGED <<mu, count, clock, crashed, nextReq, rq, resp, fvars>>

\* lists[key] = append(<the slice read>, t)
CreateWrite(w) ==
  /\ ~crashed
  /\ pc[w] = "ct_write"
  /\ lists' = MapPut(lists, Key(w), Append(loc[w].cur, loc[w].t))
  /\ loc' = [loc EXCEPT ![w].cur = <<>>]
  /\ pc' = [pc EXCEPT ![w] = "ct_readback"]
  /\ UNCHANGED <<mu, count, clock, crashed, nextReq, rq, resp, fvars>>

\* thisTodo := lists[key][len(lists[key])-1], logged; then
\* tData := json.Marshal(t); w.Write(tData)
CreateRespond(w) ==
  /\ ~crashed
  /\ pc[w] = "ct_readback"
  /\ Len(MapGet(lists, Key(w))) >= 1
  /\ resp' = [resp EXCEPT ![w] = MarshalTodo(loc[w].t)]
  /\ pc' = [pc EXCEPT ![w] = "done"]
  /\ UNCHANGED <<mu, count, lists, clock, crashed, nextReq, rq, loc, fvars>>

(***************************************************************************)
(* listTodos: json.Marshal(lists) ranges over the map, reading one entry   *)
(* at a time, without a lock, then writes the encoding.                    *)
(***************************************************************************)
ListBegin(w) ==
  /\ ~crashed
  /\ pc[w] = "lt_begin"
  /\ loc' = [loc EXCEPT ![w].keys = DOMAIN lists]
  /\ pc' = [pc EXCEPT ![w] = "lt_iter"]
  /\ UNCHANGED <<mu, count, lists, clock, crashed, nextReq, rq, resp, fvars>>

ListIter(w, k) ==
  /\ ~crashed
  /\ pc[w] = "lt_iter"
  /\ k \in loc[w].keys \ DOMAIN loc[w].snap
  /\ loc' = [loc EXCEPT ![w].snap = MapPut(@, k, lists[k])]
  /\ UNCHANGED <<mu, count, lists, clock, crashed, nextReq, pc, rq,
                 resp, fvars>>

ListWrite(w) ==
  /\ ~crashed
  /\ pc[w] = "lt_iter"
  /\ loc[w].keys \subseteq DOMAIN loc[w].snap
  /\ resp' = [resp EXCEPT ![w] = MarshalLists(loc[w].snap)]
  /\ loc' = [loc EXCEPT ![w] = NoLoc]
  /\ pc' = [pc EXCEPT ![w] = "done"]
  /\ UNCHANGED <<mu, count, lists, clock, crashed, nextReq, rq, fvars>>

(***************************************************************************)
(* The unsynchronised map: the Go runtime may detect two goroutines in     *)
(* the map at once, one of them writing, and throw the unrecoverable       *)
(* "concurrent map writes" / "concurrent map read and map write".          *)
(***************************************************************************)
MapReader(w) == pc[w] \in {"ct_read", "ct_readback", "lt_begin", "lt_iter"}

MapWriter(w) == pc[w] = "ct_write"

MapFatal(w) ==
  /\ ~crashed
  /\ MapWriter(w)
  /\ \E v \in Workers \ {w} : MapReader(v) \/ MapWriter(v)
  /\ crashed' = TRUE
  /\ UNCHANGED <<mu, count, lists, clock, nextReq, pc, rq, loc, resp, fvars>>

(***************************************************************************)
(* Specification of the server                                             *)
(***************************************************************************)
AcceptAny(w) ==
  \E path \in Paths :
    \E payload \in (IF path = "/create" THEN Payloads ELSE {NoPayload}) :
      Accept(w, path, payload)

ServerNext ==
  \E w \in Workers :
    \/ AcceptAny(w)
    \/ HandlerLock(w)
    \/ HandlerLoad(w)
    \/ HandlerStore(w)
    \/ HandlerUnlock(w)
    \/ CounterLock(w)
    \/ CounterPrint(w)
    \/ CounterUnlock(w)
    \/ RequestEcho(w)
    \/ CreateDecode(w)
    \/ CreateRead(w)
    \/ CreateWrite(w)
    \/ CreateRespond(w)
    \/ ListBegin(w)
    \/ \E k \in ListNames : ListIter(w, k)
    \/ ListWrite(w)
    \/ MapFatal(w)

ServerStart == ServerInit /\ FetcherOff

ServerSpec == ServerStart /\ [][ServerNext]_vars

(***************************************************************************)
(* The server serving one request at a time: a request is accepted only    *)
(* when every earlier one has finished.                                    *)
(***************************************************************************)
SeqAcceptAny(w) ==
  /\ \A v \in Workers : pc[v] \in {"idle", "done", "panicked"}
  /\ AcceptAny(w)

SeqNext ==
  \E w \in Workers :
    \/ SeqAcceptAny(w)
    \/ HandlerLock(w)
    \/ HandlerLoad(w)
    \/ HandlerStore(w)
    \/ HandlerUnlock(w)
    \/ CounterLock(w)
    \/ CounterPrint(w)
    \/ CounterUnlock(w)
    \/ RequestEcho(w)
    \/ CreateDecode(w)
    \/ CreateRead(w)
    \/ CreateWrite(w)
    \/ CreateRespond(w)
    \/ ListBegin(w)
    \/ \E k \in ListNames : ListIter(w, k)
    \/ ListWrite(w)

SeqSpec == ServerStart /\ [][SeqNext]_vars

(***************************************************************************)
(* Properties of the server                                                *)
(***************************************************************************)
IsCreate(w) == Route(rq[w].path) = "createTodo" /\ rq[w].payload # BadJSON

\* the create requests for list L whose handler has returned
CompletedCreates(L) ==
  {w \in Workers : IsCreate(w) /\ pc[w] = "done" /\ Key(w) = L}

\* no create request is between its decode and its return
NoCreateInFlight ==
  \A w \in Workers : pc[w] \notin {"ct_decode", "ct_read", "ct_write", "ct_readback"}

Occurrences(s, x) == Cardinality({i \in 1..Len(s) : s[i] = x})

\* C1: once all concurrent create requests have completed, each list holds
\* every todo created in it exactly once and its length is the number of
\* completed create calls for it.
C1_NoLostOrDuplicate ==
  NoCreateInFlight =>
    \A L \in ListNames :
      /\ Len(MapGet(lists, L)) = Cardinality(CompletedCreates(L))
      /\ \A w \in CompletedCreates(L) :
           Occurrences(MapGet(lists, L), loc[w].t) = 1

\* a request is inside a Store access: it has read the list it appends to
\* and not yet written it back, or it is ranging over the map
InStore(w) == pc[w] \in {"ct_write", "lt_iter"}

\* C2: no two in-flight requests are inside a Store access at the same time.
C2_StoreMutex == Cardinality({w \in Workers : InStore(w)}) <= 1

\* the create requests that have stored their todo
Stored(w) == IsCreate(w) /\ pc[w] \in {"ct_readback", "done"}

RECURSIVE CallOrder(_, _)
\* the todos stored in list L by requests 1..n, in the order of the calls
CallOrder(L, n) ==
  IF n = 0 THEN <<>>
  ELSE IF Stored(n) /\ Key(n) = L
       THEN Append(CallOrder(L, n - 1), loc[n].t)
       ELSE CallOrder(L, n - 1)

\* C3: when the create calls are issued one after another, each list holds
\* the todos created in it in call order, as many as the calls, and a list
\* name is present exactly when a create has named it.
C3_SeqCallOrder ==
  \A L \in ListNames :
    /\ MapGet(lists, L) = CallOrder(L, MaxReqs)
    /\ L \in DOMAIN lists <=> \E w \in Workers : Stored(w) /\ Key(w) = L

C3_Witness ==
  \E L \in ListNames :
    /\ Cardinality(CompletedCreates(L)) >= 2
    /\ Len(MapGet(lists, L)) >= 2
    /\ MapGet(lists, L)[1].Body # MapGet(lists, L)[2].Body
    /\ \E K \in ListNames : K \notin DOMAIN lists

IsRoot(w) == Route(rq[w].path) = "handler"

\* the handlers holding mu
Holding ==
  {w \in Workers :
     pc[w] \in {"h_load", "h_store", "h_unlock", "c_print", "c_unlock"}}

\* the requests to the handler that have incremented the counter
Incremented == {w \in Workers : IsRoot(w) /\ pc[w] \in {"h_unlock", "done"}}

\* C4: the mutex is held by at most one handler and by none that has
\* returned; the counter is the number of increments made (none lost); a
\* count request reports the counter as it stands while the lock is held,
\* which is at least the number of root requests completed before it began
\* and at most the number begun.
C4_CounterExclusive ==
  /\ Cardinality(Holding) <= 1
  /\ mu <=> Holding # {}
  /\ count = Cardinality(Incremented)
  /\ \A w \in Workers :
       /\ pc[w] = "c_unlock" => resp[w] = <<"Count", count>>
       /\ (Route(rq[w].path) = "counter" /\ pc[w] \in {"c_unlock", "done"}) =>
            /\ resp[w][1] = "Count"
            /\ resp[w][2] >= Cardinality({v \in rq[w].after : IsRoot(v)})
            /\ resp[w][2] <= Cardinality({v \in Workers : IsRoot(v)})

C4_Witness ==
  \E w \in Workers :
    /\ rq[w].path = "/count"
    /\ pc[w] = "done"
    /\ resp[w] = <<"Count", 2>>
    /\ Cardinality({v \in rq[w].after : rq[v].path = "/"}) = 2

\* C5 as stated: the counter changes only by the increment of a request to
\* the root path.
C5_OnlyRootPath ==
  [][count' # count =>
       \E w \in Workers :
         /\ rq[w].path = "/"
         /\ pc[w] = "h_store" /\ pc'[w] = "h_unlock"
         /\ count' = count + 1]_vars

Registered == {"/count", "/request", "/create", "/todos"}

\* C5 amended: the counter changes only by one, in the increment of a
\* request whose path is none of /count, /request, /create, /todos (the
\* root path and every unregistered path); such a request increments once
\* and a request to one of the four registered paths never does.
C5_OnlyUnregisteredPaths ==
  [][/\ count' # count =>
          \E w \in Workers :
            /\ rq[w].path \notin Registered
            /\ pc[w] = "h_store" /\ pc'[w] = "h_unlock"
            /\ count' = count + 1
     /\ \A w \in Workers :
          /\ (pc[w] = "h_store" /\ pc'[w] # pc[w]) => count' = count + 1
          /\ pc[w] \in {"h_unlock", "done"} => pc'[w] \in {"h_unlock", "done"}
          /\ (pc[w] # "idle" /\ rq[w].path \in Registered) =>
               pc'[w] \notin {"h_lock", "h_load", "h_store", "h_unlock"}]_vars

C5_Witness ==
  /\ count = 2
  /\ \E w \in Workers : rq[w].path = "/favicon.ico" /\ pc[w] = "done"
  /\ \E w \in Workers : rq[w].path = "/" /\ pc[w] = "done"
  /\ \E w \in Workers : rq[w].path \in Registered /\ pc[w] = "done"

\* C9: a completed create for list L with body b answered with body b and
\* completed=false, and every list-all request begun after it returns L
\* with a todo of body b, completed=false and the creation timestamp.
C9_CreateThenList ==
  \A w \in Workers :
    (IsCreate(w) /\ pc[w] = "done") =>
      /\ resp[w].body = rq[w].payload.todo
      /\ resp[w].completed = FALSE
      /\ \A v \in Workers :
           (Route(rq[v].path) = "listTodos" /\ pc[v] = "done"
              /\ w \in rq[v].after) =>
             /\ Key(w) \in DOMAIN resp[v]
             /\ \E i \in DOMAIN resp[v][Key(w)] :
                  resp[v][Key(w)][i] =
                    [body |-> rq[w].payload.todo, completed |-> FALSE,
                     created_at |-> loc[w].t.CreatedAt]

(***************************************************************************)
(* URLs: strings as sequences of characters                                *)
(***************************************************************************)
\* protocol := "http://"
Protocol == <<"h", "t", "t", "p", ":", "/", "/">>

SecureProtocol == <<"h", "t", "t", "p", "s", ":", "/", "/">>

\* the URLs a, http://a and https://b
Urls ==
  { <<"a">>,
    Protocol \o <<"a">>,
    SecureProtocol \o <<"b">> }

RECURSIVE SeqsUpTo(_, _)
SeqsUpTo(S, n) ==
  IF n = 0 THEN {<<>>}
  ELSE LET shorter == SeqsUpTo(S, n - 1)
       IN  shorter \cup {Append(a, x) : a \in shorter, x \in S}

ArgLists == SeqsUpTo(Urls, MaxUrls)

\* strings.HasPrefix(s, prefix)
HasPrefix(s, prefix) ==
  Len(s) >= Len(prefix) /\ SubSeq(s, 1, Len(prefix)) = prefix

\* a variant of ensureProtocol that adds the protocol without looking
ensureProtocol_Always(url) == Protocol \o url

\* ensureProtocol adds http:// to a url that does not start with it
ensureProtocol(url) ==
  IF ~HasPrefix(url, Protocol) THEN Protocol \o url ELSE url

\* http.Get can only succeed for a URL with an http or https scheme and a
\* host; for any other it returns an error before anything is sent
CanSucceed(url) ==
  \E scheme \in {Protocol, SecureProtocol} :
    HasPrefix(url, scheme) /\ Len(url) > Len(scheme)

\* the byte counts io.Copy can report
Sizes == {0, 7}

(***************************************************************************)
(* fetchall / fetchC                                                       *)
(***************************************************************************)
NoLine == [kind |-> "", nbytes |-> -1, url |-> <<>>]

\* fmt.Sprint(err) of the error of http.Get, which names the URL
ErrLine(url) == [kind |-> "error", nbytes |-> -1, url |-> url]

\* fmt.Sprintf("while reading %s: %v", url, err)
ReadErrLine(url) == [kind |-> "while reading", nbytes |-> -1, url |-> url]

\* fmt.Sprintf("%.2fs  %7d  %s", secs, nbytes, url)
SummaryLine(nbytes, url) == [kind |-> "summary", nbytes |-> nbytes, url |-> url]

\* fmt.Printf("%.2fs elapsed\n", ...)
ElapsedLine == [kind |-> "elapsed", nbytes |-> -1, url |-> <<>>]

NoTask == [pc |-> "pending", url |-> <<>>, get |-> "", read |-> "", msg |-> NoLine]

FetchallInit ==
  /\ ServerInit
  /\ args \in ArgLists
  /\ mainPc = "fa_spawn"
  /\ idx = 0
  /\ task = [k \in 1..Len(args) |-> NoTask]
  /\ out = <<>>
  /\ from = <<>>
  /\ requested = <<>>
  /\ open = {}
  /\ errOut = <<>>
  /\ exitCode = -1

\* for _, url := range args { go fetchC(url, ch) }
FaSpawn ==
  /\ mainPc = "fa_spawn"
  /\ idx < Len(args)
  /\ task' = [task EXCEPT ![idx + 1] = [@ EXCEPT !.pc = "get", !.url = args[idx + 1]]]
  /\ idx' = idx + 1
  /\ UNCHANGED <<args, mainPc, out, from, requested, open, errOut, exitCode, svars>>

\* the spawning loop ends; ch is unbuffered
FaSpawnEnd ==
  /\ mainPc = "fa_spawn"
  /\ idx = Len(args)
  /\ mainPc' = "fa_recv"
  /\ idx' = 0
  /\ UNCHANGED <<args, task, out, from, requested, open, errOut, exitCode, svars>>

FcGet_NoSend(k) ==
  /\ mainPc # "exited"
  /\ task[k].pc = "get"
  /\ requested' = Append(requested, task[k].url)
  /\ \/ /\ task' = [task EXCEPT ![k] =
                      [@ EXCEPT !.pc = "returned", !.get = "err"]]
        /\ open' = open
     \/ /\ CanSucceed(task[k].url)
        /\ task' = [task EXCEPT ![k] = [@ EXCEPT !.pc = "copy", !.get = "ok"]]
        /\ open' = open \cup {k}
  /\ UNCHANGED <<args, mainPc, idx, out, from, errOut, exitCode, svars>>

\* resp, err := http.Get(url); on an error the task goes to send it
FcGet(k) ==
  /\ mainPc # "exited"
  /\ task[k].pc = "get"
  /\ requested' = Append(requested, task[k].url)
  /\ \/ /\ task' = [task EXCEPT ![k] =
                      [@ EXCEPT !.pc = "send", !.get = "err",
                                !.msg = ErrLine(task[k].url)]]
        /\ open' = open
     \/ /\ CanSucceed(task[k].url)
        /\ task' = [task EXCEPT ![k] = [@ EXCEPT !.pc = "copy", !.get = "ok"]]
        /\ open' = open \cup {k}
  /\ UNCHANGED <<args, mainPc, idx, out, from, errOut, exitCode, svars>>

FcCopy_IgnoreError(k) ==
  /\ mainPc # "exited"
  /\ task[k].pc = "copy"
  /\ \E n \in Sizes, r \in {"ok", "err"} :
       task' = [task EXCEPT ![k] =
                  [@ EXCEPT !.pc = "send", !.read = r,
                            !.msg = SummaryLine(n, task[k].url)]]
  /\ UNCHANGED <<args, mainPc, idx, out, from, requested, open, errOut,
                 exitCode, svars>>

\* nbytes, err := io.Copy(ioutil.Discard, resp.Body); the message is the
\* read error or the summary
FcCopy(k) ==
  /\ mainPc # "exited"
  /\ task[k].pc = "copy"
  /\ \/ task' = [task EXCEPT ![k] =
                   [@ EXCEPT !.pc = "send", !.read = "err",
                             !.msg = ReadErrLine(task[k].url)]]
     \/ \E n \in Sizes :
          task' = [task EXCEPT ![k] =
                     [@ EXCEPT !.pc = "send", !.read = "ok",
                               !.msg = SummaryLine(n, task[k].url)]]
  /\ UNCHANGED <<args, mainPc, idx, out, from, requested, open, errOut,
                 exitCode, svars>>

RecvCount_OneLess(a) == IF Len(a) = 0 THEN 0 ELSE Len(a) - 1

\* for range args: the number of receives
RecvCount(a) == Len(a)

FaRecv_InputOrder(k) ==
  /\ mainPc = "fa_recv"
  /\ idx < RecvCount(args)
  /\ k = idx + 1
  /\ task[k].pc = "send"
  /\ out' = Append(out, task[k].msg)
  /\ from' = Append(from, k)
  /\ idx' = idx + 1
  /\ task' = [task EXCEPT ![k].pc = IF k \in open THEN "closing" ELSE "returned"]
  /\ UNCHANGED <<args, mainPc, requested, open, errOut, exitCode, svars>>

\* fmt.Println(<-ch) meets the send ch <- msg of task k; the task then
\* returns, running its deferred resp.Body.Close() if it opened a body
FaRecv(k) ==
  /\ mainPc = "fa_recv"
  /\ idx < RecvCount(args)
  /\ task[k].pc = "send"
  /\ out' = Append(out, task[k].msg)
  /\ from' = Append(from, k)
  /\ idx' = idx + 1
  /\ task' = [task EXCEPT ![k].pc = IF k \in open THEN "closing" ELSE "returned"]
  /\ UNCHANGED <<args, mainPc, requested, open, errOut, exitCode, svars>>

\* the deferred resp.Body.Close() of a task that has sent its message
FcClose(k) ==
  /\ mainPc # "exited"
  /\ task[k].pc = "closing"
  /\ open' = open \ {k}
  /\ task' = [task EXCEPT ![k].pc = "returned"]
  /\ UNCHANGED <<args, mainPc, idx, out, from, requested, errOut, exitCode, svars>>

\* the receiving loop ends: print the elapsed time, return from fetchall
\* and from main, which ends the process and every goroutine with it
FaElapsed ==
  /\ mainPc = "fa_recv"
  /\ idx = RecvCount(args)
  /\ out' = Append(out, ElapsedLine)
  /\ mainPc' = "exited"
  /\ exitCode' = 0
  /\ UNCHANGED <<args, idx, task, from, requested, open, errOut, svars>>

\* the goroutines are scheduled in any order
FcGetAny == \E k \in DOMAIN task : FcGet(k)

FcCopyAny == \E k \in DOMAIN task : FcCopy(k)

FaRecvAny == \E k \in DOMAIN task : FaRecv(k)

FcCloseAny == \E k \in DOMAIN task : FcClose(k)

FetchallNext ==
  \/ FaSpawn
  \/ FaSpawnEnd
  \/ FcGetAny
  \/ FcCopyAny
  \/ FaRecvAny
  \/ FcCloseAny
  \/ FaElapsed

FetchallSpec == FetchallInit /\ [][FetchallNext]_vars

\* The Go scheduler runs every runnable goroutine eventually, and every GET
\* and every read of a body ends (with a result or an error).  Nothing
\* makes a deferred Close run before the process ends.
FairFetchallSpec ==
  /\ FetchallInit
  /\ [][FetchallNext]_vars
  /\ WF_vars(FaSpawn)
  /\ WF_vars(FaSpawnEnd)
  /\ WF_vars(FaRecvAny)
  /\ WF_vars(FaElapsed)
  /\ \A k \in 1..MaxUrls : WF_vars(k \in DOMAIN task /\ FcGet(k))
  /\ \A k \in 1..MaxUrls : WF_vars(k \in DOMAIN task /\ FcCopy(k))

(***************************************************************************)
(* Properties of fetchall                                                  *)
(***************************************************************************)
\* the tasks whose send has been received
Delivered == {k \in DOMAIN task : task[k].pc \in {"closing", "returned"}}

ResultKinds == {"error", "while reading", "summary"}

\* C6: fetchall receives exactly one result from each of its N tasks and
\* prints N result lines; the elapsed line is printed, and fetchall returns,
\* only after all N results have been received, and nothing follows it.
C6_ExactlyOnePerTask ==
  /\ Len(out) = Len(from) + (IF mainPc = "exited" THEN 1 ELSE 0)
  /\ \A k \in DOMAIN task :
       Occurrences(from, k) = (IF k \in Delivered THEN 1 ELSE 0)
  /\ \A p \in DOMAIN from : from[p] \in DOMAIN task /\ out[p].kind \in ResultKinds
  /\ \A p \in DOMAIN out : out[p] = ElapsedLine => p = Len(args) + 1
  /\ mainPc = "exited" =>
       /\ Len(from) = Len(args)
       /\ Delivered = 1..Len(args)
       /\ Len(out) = Len(args) + 1
       /\ out[Len(out)] = ElapsedLine

C6_Witness ==
  /\ mainPc = "exited"
  /\ Len(args) >= 2
  /\ Len(from) = Len(args)
  /\ from[1] = 2

\* the line a task must produce, given how its GET and its read ended
LineKindOf(k) ==
  IF task[k].get = "err" THEN "error"
  ELSE IF task[k].read = "err" THEN "while reading"
  ELSE "summary"

\* C7: every result line is the line of its own task's outcome: an error
\* line when the GET or the read failed, the summary line with the task's
\* URL when both succeeded, whatever happened to the other tasks; when
\* fetchall returns there are exactly N of them.
C7_FailuresAreLocal ==
  /\ \A p \in DOMAIN from :
       LET k == from[p]
       IN  /\ out[p].kind = LineKindOf(k)
           /\ out[p].url = args[k]
           /\ out[p].kind = "summary" <=> (task[k].get = "ok" /\ task[k].read = "ok")
           /\ out[p].kind = "summary" => out[p].nbytes \in Sizes
  /\ mainPc = "exited" =>
       Cardinality({from[p] : p \in DOMAIN from}) = Len(args)

C7_Witness ==
  /\ mainPc = "exited"
  /\ \E p, q \in DOMAIN from :
       /\ p < q
       /\ task[from[p]].get = "err" /\ out[p].kind = "error"
       /\ task[from[q]].read = "ok" /\ out[q].kind = "summary"

\* the URL names a scheme
HasScheme(url) == HasPrefix(url, Protocol) \/ HasPrefix(url, SecureProtocol)

\* C8: in fetchall no GET is issued for a URL without a scheme: a URL that
\* lacks one has been prefixed with http:// before http.Get is called.
C8_SchemeBeforeGet ==
  \A i \in DOMAIN requested : HasScheme(requested[i])

(***************************************************************************)
(* fetch: the URLs one after another, the body copied to standard output   *)
(***************************************************************************)
\* the response body as copied to standard output by io.Copy
BodyLine(url) == [kind |-> "body", nbytes |-> -1, url |-> url]

\* what io.Copy had written when it failed
PartialBodyLine(url) == [kind |-> "partial body", nbytes |-> -1, url |-> url]

\* fmt.Printf("\nStatus: %v\n", resp.Status)
StatusLine(url) == [kind |-> "status", nbytes |-> -1, url |-> url]

\* fmt.Fprintf(os.Stderr, "fetch: %v\n", err)
FetchErrLine(url) == [kind |-> "fetch:", nbytes |-> -1, url |-> url]

\* fmt.Fprintf(os.Stderr, "fetch: reading %s: %v\n", url, err)
FetchReadErrLine(url) == [kind |-> "fetch: reading", nbytes |-> -1, url |-> url]

FetchInit ==
  /\ ServerInit
  /\ args \in ArgLists
  /\ mainPc = "f_get"
  /\ idx = 0
  /\ task = <<>>
  /\ out = <<>>
  /\ from = <<>>
  /\ requested = <<>>
  /\ open = {}
  /\ errOut = <<>>
  /\ exitCode = -1

\* the URL of the current iteration: url = ensureProtocol(url)
CurrentUrl == ensureProtocol(args[idx + 1])

FetchGet_Continue ==
  /\ mainPc = "f_get"
  /\ idx < Len(args)
  /\ requested' = Append(requested, CurrentUrl)
  /\ \/ /\ errOut' = Append(errOut, FetchErrLine(CurrentUrl))
        /\ idx' = idx + 1
        /\ UNCHANGED <<mainPc, exitCode, open>>
     \/ /\ CanSucceed(CurrentUrl)
        /\ open' = open \cup {idx + 1}
        /\ mainPc' = "f_copy"
        /\ UNCHANGED <<errOut, exitCode, idx>>
  /\ UNCHANGED <<args, task, out, from, svars>>

\* resp, err := http.Get(url); an error is printed and os.Exit(1) ends the
\* process without running the deferred closes
FetchGet ==
  /\ mainPc = "f_get"
  /\ idx < Len(args)
  /\ requested' = Append(requested, CurrentUrl)
  /\ \/ /\ errOut' = Append(errOut, FetchErrLine(CurrentUrl))
        /\ exitCode' = 1
        /\ mainPc' = "exited"
        /\ open' = open
     \/ /\ CanSucceed(CurrentUrl)
        /\ open' = open \cup {idx + 1}
        /\ mainPc' = "f_copy"
        /\ UNCHANGED <<errOut, exitCode>>
  /\ UNCHANGED <<args, idx, task, out, from, svars>>

\* defer resp.Body.Close(); _, err = io.Copy(os.Stdout, resp.Body)
FetchCopy ==
  /\ mainPc = "f_copy"
  /\ \/ /\ out' \in {out, Append(out, PartialBodyLine(CurrentUrl))}
        /\ errOut' = Append(errOut, FetchReadErrLine(CurrentUrl))
        /\ exitCode' = 1
        /\ mainPc' = "exited"
     \/ /\ out' = Append(out, BodyLine(CurrentUrl))
        /\ mainPc' = "f_status"
        /\ UNCHANGED <<errOut, exitCode>>
  /\ UNCHANGED <<args, idx, task, from, requested, open, svars>>

\* the status line, then the next URL
FetchStatus ==
  /\ mainPc = "f_status"
  /\ out' = Append(out, StatusLine(CurrentUrl))
  /\ idx' = idx + 1
  /\ mainPc' = "f_get"
  /\ UNCHANGED <<args, task, from, requested, open, errOut, exitCode, svars>>

\* the loop ends: fetch returns, running every deferred resp.Body.Close(),
\* and main returns
FetchReturn ==
  /\ mainPc = "f_get"
  /\ idx = Len(args)
  /\ open' = {}
  /\ exitCode' = 0
  /\ mainPc' = "exited"
  /\ UNCHANGED <<args, idx, task, out, from, requested, errOut, svars>>

FetchNext ==
  \/ FetchGet
  \/ FetchCopy
  \/ FetchStatus
  \/ FetchReturn

FetchSpec == FetchInit /\ [][FetchNext]_vars

(***************************************************************************)
(* Properties of fetch                                                     *)
(***************************************************************************)
\* the status lines printed, in order
StatusLines == SelectSeq(out, LAMBDA l : l.kind = "status")

\* C10: fetch requests its URLs one after another in input order; the first
\* network error (of the GET or of reading the body) ends the process with
\* exit status 1: no later URL is ever requested and no status line is
\* printed for the failing URL.
C10_StopsAtFirstError ==
  /\ Len(requested) \in {idx, idx + 1}
  /\ Len(requested) <= Len(args)
  /\ \A i \in DOMAIN requested : requested[i] = ensureProtocol(args[i])
  /\ StatusLines = [i \in 1..idx |-> StatusLine(ensureProtocol(args[i]))]
  /\ mainPc \in {"f_copy", "f_status"} => Len(requested) = idx + 1
  /\ errOut # <<>> =>
       /\ Len(errOut) = 1
       /\ exitCode = 1
       /\ mainPc = "exited"
       /\ Len(requested) = idx + 1
       /\ errOut[1].url = requested[idx + 1]
       /\ Len(StatusLines) = Len(requested) - 1
  /\ exitCode = 1 <=> errOut # <<>>
  /\ exitCode = 0 => Len(requested) = Len(args) /\ idx = Len(args)

C10_Witness ==
  /\ exitCode = 1
  /\ Len(args) = 2
  /\ idx = 0
  /\ Len(requested) = 1
  /\ StatusLines = <<>>

(***************************************************************************)
(* Further properties of the server                                        *)
(***************************************************************************)
\* the next step of the handler of request v
HandlerStep(v) ==
  \/ HandlerLock(v) \/ HandlerLoad(v) \/ HandlerStore(v) \/ HandlerUnlock(v)
  \/ CounterLock(v) \/ CounterPrint(v) \/ CounterUnlock(v)
  \/ RequestEcho(v)
  \/ CreateDecode(v) \/ CreateRead(v) \/ CreateWrite(v) \/ CreateRespond(v)
  \/ ListBegin(v) \/ (\E k \in ListNames : ListIter(v, k)) \/ ListWrite(v)

InFlight(v) == pc[v] \notin {"idle", "done", "panicked"}

\* the decode of request w fails in this step
DecodeFails(w) == pc[w] = "ct_decode" /\ pc'[w] = "panicked"

\* C11: a create request whose body does not decode panics alone: the step
\* appends nothing to the Store, leaves the counter, the mutex and the
\* process as they are and touches no other request; the request gets no
\* response; and while the process runs every other request in flight can
\* take its next step (or waits for the mutex held by a request that can)
\* and the next request can be accepted.
C11_DecodeErrorIsLocal ==
  /\ [][\A w \in Workers :
          DecodeFails(w) =>
            /\ rq[w].payload = BadJSON
            /\ UNCHANGED <<lists, count, mu, crashed, clock, nextReq, rq>>
            /\ \A v \in Workers \ {w} :
                 pc'[v] = pc[v] /\ loc'[v] = loc[v] /\ resp'[v] = resp[v]]_vars
  /\ [](\A w \in Workers :
          pc[w] = "panicked" =>
            /\ resp[w] = NoResp
            /\ loc[w] = NoLoc
            /\ ~crashed =>
                 /\ \A v \in Workers :
                      InFlight(v) =>
                        \/ ENABLED HandlerStep(v)
                        \/ /\ pc[v] \in {"h_lock", "c_lock"}
                           /\ \E u \in Holding : ENABLED HandlerStep(u)
                 /\ nextReq \in Workers => ENABLED AcceptAny(nextReq))

C11_Witness ==
  \E w, v, u \in Workers :
    /\ pc[w] = "panicked"
    /\ rq[v].path = "/todos" /\ w \in rq[v].after /\ pc[v] = "done"
    /\ u < w /\ IsCreate(u) /\ pc[u] = "done" /\ resp[u] # NoResp
    /\ Key(u) \in DOMAIN resp[v]

\* s is an initial part of t
IsPrefixOf(s, t) == Len(s) <= Len(t) /\ SubSeq(t, 1, Len(s)) = s

\* C12: the Store is append-only: in every step every list keeps the todos
\* it holds, at their positions and unchanged, and may only grow at the end.
C12_AppendOnly ==
  [][\A L \in DOMAIN lists :
       /\ L \in DOMAIN lists'
       /\ IsPrefixOf(lists[L], lists'[L])]_vars

\* the write of request w to lists[key] happens in this step
WritesStore(w) ==
  IsCreate(w) /\ pc[w] = "ct_write" /\ pc'[w] = "ct_readback"

\* C16: the Store changes only in the write of a create request, which
\* changes the sequence of its own list and leaves every other list as it
\* is; no step of a list-all, root, count or request-echo handler changes it.
C16_CreateTouchesOnlyItsList ==
  [][/\ lists' # lists =>
          \E w \in Workers :
            /\ WritesStore(w)
            /\ \A K \in ListNames \ {Key(w)} :
                 /\ K \in DOMAIN lists' <=> K \in DOMAIN lists
                 /\ MapGet(lists', K) = MapGet(lists, K)
     /\ \A w \in Workers :
          (rq[w].path \in {"/", "/favicon.ico", "/count", "/request", "/todos"}
             /\ pc'[w] # pc[w]) => lists' = lists
     /\ \A w \in Workers :
          (rq[w].path = "/todos" /\ loc'[w] # loc[w]) => lists' = lists]_vars

C16_Witness ==
  /\ \A L \in ListNames : Len(MapGet(lists, L)) >= 1
  /\ \E w \in Workers : rq[w].path = "/create" /\ pc[w] = "done"
  /\ \E w \in Workers : rq[w].path = "/todos" /\ pc[w] = "lt_iter"
                          /\ DOMAIN loc[w].snap # {}

(***************************************************************************)
(* Further properties of the fetchers                                      *)
(***************************************************************************)
\* C13: fetchall prints in completion order: the step in which a task hands
\* its message over the channel appends that message as the next line, so
\* the k-th line is the message of the k-th task to hand over; which task
\* that is does not depend on its position in the input: any task that is
\* sending can be the next one received.
C13_CompletionOrder ==
  /\ [][\A k \in DOMAIN task :
          (task[k].pc = "send" /\ task'[k].pc # "send") =>
            /\ out' = Append(out, task[k].msg)
            /\ from' = Append(from, k)]_vars
  /\ [](\A p \in DOMAIN from : out[p] = task[from[p]].msg)
  /\ []((mainPc = "fa_recv" /\ idx < Len(args)) =>
          \A k \in DOMAIN task : task[k].pc = "send" => ENABLED FaRecv(k))

C13_Witness ==
  /\ Len(args) = 2
  /\ args[1] # args[2]
  /\ from = <<2, 1>>
  /\ out[1].url = args[2]
  /\ out[2].url = args[1]

\* C14: with every GET and read ending and fair scheduling, fetchall
\* returns for every input; each task issues at most one GET; when fetchall
\* has returned every task has ended its GET with a result or an error and
\* has handed its message over (none is blocked sending).
C14_FetchallReturns ==
  /\ <>(mainPc = "exited")
  /\ [](/\ Len(requested) = Cardinality({k \in DOMAIN task : task[k].get # ""})
        /\ Len(requested) <= Len(args))
  /\ [](mainPc = "exited" =>
          \A k \in DOMAIN task :
            /\ task[k].pc \in {"closing", "returned"}
            /\ task[k].get \in {"ok", "err"}
            /\ task[k].get = "ok" => task[k].read \in {"ok", "err"})

C14_Witness ==
  /\ mainPc = "exited"
  /\ Len(requested) = 2
  /\ \E k, j \in DOMAIN task :
       /\ task[k].pc = "returned" /\ task[k].get = "err"
       /\ task[j].get = "ok" /\ task[j].read = "err"

\* C15: when the invocation ends, normally or by an error exit, no response
\* body that was opened is left unclosed.
C15_BodiesClosedAtExit == exitCode # -1 => open = {}

(***************************************************************************)
(* main: the dispatch on os.Args[1].  Here args holds os.Args[1:], the     *)
(* words after the program name, until main hands os.Args[2:] to fetch or  *)
(* fetchall.                                                               *)
(***************************************************************************)
\* the command lines: none, ls, server, fetch and fetchall with their
\* URLs, and the text of a todo with and without the -l flag
CommandLines ==
  {<<>>, <<"ls">>, <<"server">>, <<"buy milk">>, <<"buy", "milk">>,
   <<"-l", "Work", "call">>}
    \cup {<<"fetch">> \o a : a \in ArgLists}
    \cup {<<"fetchall">> \o a : a \in ArgLists}

\* the runtime's message for os.Args[1] on a one-element os.Args
PanicLine ==
  [kind |-> "panic: runtime error: index out of range", nbytes |-> -1,
   url |-> <<>>]

UsageLine == [kind |-> "usage", nbytes |-> -1, url |-> <<>>]

\* what a client command prints on success and on failure
ClientLine(what) == [kind |-> what, nbytes |-> -1, url |-> <<>>]

MainInit ==
  /\ ServerInit
  /\ args \in CommandLines
  /\ mainPc = "main"
  /\ idx = 0
  /\ task = <<>>
  /\ out = <<>>
  /\ from = <<>>
  /\ requested = <<>>
  /\ open = {}
  /\ errOut = <<>>
  /\ exitCode = -1

\* os.Args[1] with no argument: index out of range, the goroutine panics
\* and the process ends with status 2
MainNoArgs ==
  /\ mainPc = "main"
  /\ Len(args) = 0
  /\ errOut' = <<PanicLine>>
  /\ exitCode' = 2
  /\ mainPc' = "exited"
  /\ UNCHANGED <<args, idx, task, out, from, requested, open, svars>>

\* "ls": getTodos prints the body and the status, or the error and exits 1
MainLs ==
  /\ mainPc = "main"
  /\ Len(args) >= 1
  /\ args[1] = "ls"
  /\ \/ /\ out' = <<ClientLine("todos"), ClientLine("status")>>
        /\ exitCode' = 0
        /\ UNCHANGED errOut
     \/ /\ errOut' = <<ClientLine("getTodos:")>>
        /\ exitCode' = 1
        /\ UNCHANGED out
  /\ mainPc' = "exited"
  /\ UNCHANGED <<args, idx, task, from, requested, open, svars>>

\* "fetch": fetch(os.Args[2:])
MainFetch ==
  /\ mainPc = "main"
  /\ Len(args) >= 1
  /\ args[1] = "fetch"
  /\ args' = Tail(args)
  /\ mainPc' = "f_get"
  /\ UNCHANGED <<idx, task, out, from, requested, open, errOut, exitCode, svars>>

\* "fetchall": fetchall(os.Args[2:])
MainFetchall ==
  /\ mainPc = "main"
  /\ Len(args) >= 1
  /\ args[1] = "fetchall"
  /\ args' = Tail(args)
  /\ task' = [k \in 1..(Len(args) - 1) |-> NoTask]
  /\ mainPc' = "fa_spawn"
  /\ UNCHANGED <<idx, out, from, requested, open, errOut, exitCode, svars>>

\* "server": startServer registers the handlers and serves, or log.Fatal
\* ends the process when it cannot listen
MainServer ==
  /\ mainPc = "main"
  /\ Len(args) >= 1
  /\ args[1] = "server"
  /\ \/ /\ mainPc' = "server"
        /\ UNCHANGED <<errOut, exitCode>>
     \/ /\ errOut' = <<ClientLine("ListenAndServe:")>>
        /\ exitCode' = 1
        /\ mainPc' = "exited"
  /\ UNCHANGED <<args, idx, task, out, from, requested, open, svars>>

\* anything else: addTodo(*listName, todo) posts the todo
MainAdd ==
  /\ mainPc = "main"
  /\ Len(args) >= 1
  /\ args[1] \notin {"ls", "fetch", "fetchall", "server"}
  /\ \/ /\ out' = <<ClientLine("body:"), ClientLine("data:"), ClientLine("status")>>
        /\ exitCode' = 0
        /\ UNCHANGED errOut
     \/ /\ out' = <<ClientLine("body:"), ClientLine("data:")>>
        /\ errOut' = <<ClientLine("addTodo:")>>
        /\ exitCode' = 1
  /\ mainPc' = "exited"
  /\ UNCHANGED <<args, idx, task, from, requested, open, svars>>

\* the server, once started, serves its requests
Serve == mainPc = "server" /\ ServerNext

MainNext ==
  \/ MainNoArgs
  \/ MainLs
  \/ MainFetch
  \/ MainFetchall
  \/ MainServer
  \/ MainAdd
  \/ Serve
  \/ FetchGet
  \/ FetchCopy
  \/ FetchStatus
  \/ FetchReturn
  \/ FaSpawn
  \/ FaSpawnEnd
  \/ FcGetAny
  \/ FcCopyAny
  \/ FaRecvAny
  \/ FcCloseAny
  \/ FaElapsed

MainSpec == MainInit /\ [][MainNext]_vars

\* C17: an invocation with no command-line argument prints a usage message
\* and ends with a non-zero status, not with an out-of-range failure.
C17_UsageOnNoArgs ==
  [][(mainPc = "main" /\ Len(args) = 0) =>
       /\ mainPc' = "exited"
       /\ exitCode' > 0
       /\ errOut' = <<UsageLine>>]_vars

(***************************************************************************)
(* ensureProtocol on its own: one input string, the function applied to    *)
(* it, and applied again to its result.  args holds the input and out the  *)
(* two results.                                                            *)
(***************************************************************************)
Chars == {"h", "t", ":", "/", "a"}

Tails == SeqsUpTo(Chars, MaxStrLen)

\* every beginning of "https://", which covers every beginning of "http://"
\* and "http://" itself, followed by a short tail: strings without the
\* protocol, with only a part of it, with it, with it twice begun, and with
\* the secure one
EnsureInputs ==
  {SubSeq(SecureProtocol, 1, n) \o t : n \in 0..Len(SecureProtocol), t \in Tails}
    \cup {SubSeq(Protocol, 1, n) \o t : n \in 0..Len(Protocol), t \in Tails}
    \cup {Protocol \o Protocol \o t : t \in Tails}

EnsureInit ==
  /\ ServerInit
  /\ \E u \in EnsureInputs : args = <<u>>
  /\ mainPc = "ensure"
  /\ idx = 0
  /\ task = <<>>
  /\ out = <<>>
  /\ from = <<>>
  /\ requested = <<>>
  /\ open = {}
  /\ errOut = <<>>
  /\ exitCode = -1

\* ensureProtocol(u)
EnsureFirst ==
  /\ mainPc = "ensure"
  /\ idx = 0
  /\ out' = <<ensureProtocol(args[1])>>
  /\ idx' = 1
  /\ UNCHANGED <<args, mainPc, task, from, requested, open, errOut, exitCode, svars>>

\* ensureProtocol(ensureProtocol(u))
EnsureAgain ==
  /\ mainPc = "ensure"
  /\ idx = 1
  /\ out' = Append(out, ensureProtocol(out[1]))
  /\ idx' = 2
  /\ UNCHANGED <<args, mainPc, task, from, requested, open, errOut, exitCode, svars>>

EnsureNext ==
  \/ EnsureFirst
  \/ EnsureAgain

EnsureSpec == EnsureInit /\ [][EnsureNext]_vars

\* C18: ensureProtocol(u) starts with "http://", an input that already
\* starts with "http://" comes back unchanged, and applying ensureProtocol
\* to its own result gives that result again.
C18_EnsureIdempotent ==
  /\ Len(out) >= 1 =>
       /\ HasPrefix(out[1], Protocol)
       /\ HasPrefix(args[1], Protocol) => out[1] = args[1]
  /\ Len(out) >= 2 => out[2] = out[1]

\* both applications done on an input that lacked the protocol
C18_Witness ==
  /\ mainPc = "ensure"
  /\ Len(out) = 2
  /\ ~HasPrefix(args[1], Protocol)
  /\ out[1] = Protocol \o args[1]

=============================================================================
